---- MODULE Spec2Model ----
(***************************************************************************)
(* A model of ExpenseTracker (src/expense_tracker.py): the expense ledger  *)
(* (a pandas DataFrame), the category-name mapping, the CSV file, and the  *)
(* operations of the interactive menu that read or change the ledger: the  *)
(* summary, the category analysis, the filters, the add and the exit.  The *)
(* pie chart and the export of the report (choices 3 and 6) show the       *)
(* result of the category analysis and are not modelled apart from it.     *)
(*                                                                         *)
(* Text is modelled as a sequence of one-character strings, so that        *)
(* strip(), lower(), re.sub() and strptime() are computed on characters.   *)
(***************************************************************************)
EXTENDS Integers, Sequences, FiniteSets, TLC

VARIABLES
    pc,                     \* "start": the process is not running; "running": inside run_tracker
    csv_file,               \* the rows of the data file (self.fasafe_file_path), as text cells
    expense_data,           \* self.expense_data: the rows of the DataFrame, in index order
    category_name_mapping,  \* self.category_name_mapping: dict, key -> display form
    last                    \* the last call made, with what it printed and returned

vars == <<pc, csv_file, expense_data, category_name_mapping, last>>

----------------------------------------------------------------------------
(* Text                                                                    *)

Digits == {"0", "1", "2", "3", "4", "5", "6", "7", "8", "9"}

DigitVal(c) ==
    CASE c = "0" -> 0 [] c = "1" -> 1 [] c = "2" -> 2 [] c = "3" -> 3
      [] c = "4" -> 4 [] c = "5" -> 5 [] c = "6" -> 6 [] c = "7" -> 7
      [] c = "8" -> 8 [] c = "9" -> 9

DigitChar(n) ==
    CASE n = 0 -> "0" [] n = 1 -> "1" [] n = 2 -> "2" [] n = 3 -> "3"
      [] n = 4 -> "4" [] n = 5 -> "5" [] n = 6 -> "6" [] n = 7 -> "7"
      [] n = 8 -> "8" [] n = 9 -> "9"

UpperChars == <<"A", "B", "C", "D", "E", "F", "G", "H", "I", "J", "K", "L", "M",
                "N", "O", "P", "Q", "R", "S", "T", "U", "V", "W", "X", "Y", "Z">>

LowerChars == <<"a", "b", "c", "d", "e", "f", "g", "h", "i", "j", "k", "l", "m",
                "n", "o", "p", "q", "r", "s", "t", "u", "v", "w", "x", "y", "z">>

\* str.lower(), one character
LowerChar(c) ==
    IF \E i \in 1..Len(UpperChars) : UpperChars[i] = c
    THEN LowerChars[CHOOSE i \in 1..Len(UpperChars) : UpperChars[i] = c]
    ELSE c

\* str.lower()
Lower(s) == [i \in 1..Len(s) |-> LowerChar(s[i])]

IsSpace(c) == c = " "

RECURSIVE LStrip(_)
LStrip(s) == IF s # <<>> /\ IsSpace(Head(s)) THEN LStrip(Tail(s)) ELSE s

RECURSIVE RStrip(_)
RStrip(s) ==
    IF s # <<>> /\ IsSpace(s[Len(s)]) THEN RStrip(SubSeq(s, 1, Len(s) - 1)) ELSE s

\* str.strip()
Strip(s) == RStrip(LStrip(s))

AllDigits(s) == \A i \in 1..Len(s) : s[i] \in Digits

\* int() of a string of digits
RECURSIVE ToInt(_)
ToInt(s) ==
    IF s = <<>> THEN 0 ELSE 10 * ToInt(SubSeq(s, 1, Len(s) - 1)) + DigitVal(s[Len(s)])

\* the decimal digits of n >= 0, at least `width` of them (zero-padded)
RECURSIVE ToDigits(_, _)
ToDigits(n, width) ==
    IF n < 10 /\ width <= 1 THEN <<DigitChar(n)>>
    ELSE ToDigits(n \div 10, width - 1) \o <<DigitChar(n % 10)>>

\* s.split(sep): the pieces of s between the occurrences of the character sep
RECURSIVE Split(_, _)
Split(s, sep) ==
    IF \A i \in 1..Len(s) : s[i] # sep THEN <<s>>
    ELSE LET k == CHOOSE i \in 1..Len(s) :
                      s[i] = sep /\ \A j \in 1..(i - 1) : s[j] # sep
         IN  <<SubSeq(s, 1, k - 1)>> \o Split(SubSeq(s, k + 1, Len(s)), sep)

----------------------------------------------------------------------------
(* Missing values.  A pandas NaN/None cell of a text column is the         *)
(* one-element sequence <<"NaN">>, which no text is (text has one          *)
(* character per element); a missing date (None, NaT) is the date of year  *)
(* 0, which datetime cannot represent (MINYEAR is 1).                      *)

NaN == <<"NaN">>

None == [y |-> 0, m |-> 0, d |-> 0]

\* the float nan, and a float with a value (amounts are whole numbers here)
NaNf == [nan |-> TRUE, v |-> 0]

Num(n) == [nan |-> FALSE, v |-> n]

\* the exception float() raises
ValueError == [nan |-> TRUE, v |-> 1]

----------------------------------------------------------------------------
(* Dates: datetime.strptime and parse_date_input                           *)

IsLeap(y) == (y % 4 = 0 /\ y % 100 # 0) \/ y % 400 = 0

DaysInMonth(y, m) ==
    IF m = 2 THEN (IF IsLeap(y) THEN 29 ELSE 28)
    ELSE IF m \in {4, 6, 9, 11} THEN 30 ELSE 31

\* One directive of a format against the text between two separators:
\* %d is 3[0-1]|[1-2]\d|0[1-9]|[1-9], %m is 1[0-2]|0[1-9]|[1-9], %Y is \d\d\d\d.
FieldOk(dir, f) ==
    /\ f # <<>>
    /\ AllDigits(f)
    /\ CASE dir = "d" -> Len(f) <= 2 /\ ToInt(f) \in 1..31
         [] dir = "m" -> Len(f) <= 2 /\ ToInt(f) \in 1..12
         [] dir = "Y" -> Len(f) = 4

FieldOf(dirs, fields, dir, default) ==
    IF \E i \in 1..Len(dirs) : dirs[i] = dir
    THEN ToInt(fields[CHOOSE i \in 1..Len(dirs) : dirs[i] = dir])
    ELSE default

\* datetime.strptime(text, fmt), None for ValueError.  A format is its
\* directives and the separator between them; the match is of the whole text.
strptime(text, fmt) ==
    LET fields == Split(text, fmt.sep)
    IN  IF /\ Len(fields) = Len(fmt.dirs)
           /\ \A i \in 1..Len(fields) : FieldOk(fmt.dirs[i], fields[i])
        THEN LET y == FieldOf(fmt.dirs, fields, "Y", 1900)
                 m == FieldOf(fmt.dirs, fields, "m", 1)
                 d == FieldOf(fmt.dirs, fields, "d", 1)
             IN  IF y >= 1 /\ d <= DaysInMonth(y, m)
                 THEN [y |-> y, m |-> m, d |-> d]
                 ELSE None
        ELSE None

Fmt(dirs, sep) == [dirs |-> dirs, sep |-> sep]

\* a plausible slip: the Month-Day-Year formats listed before Day-Month-Year
date_formats_MonthFirst ==
    << Fmt(<<"m", "d", "Y">>, "-"), Fmt(<<"m", "d", "Y">>, "/"), Fmt(<<"m", "d", "Y">>, "."),
       Fmt(<<"d", "m", "Y">>, "-"), Fmt(<<"d", "m", "Y">>, "/"), Fmt(<<"d", "m", "Y">>, "."),
       Fmt(<<"Y", "m", "d">>, "-"), Fmt(<<"Y", "m", "d">>, "/"), Fmt(<<"Y", "m", "d">>, "."),
       Fmt(<<"m", "Y">>, "-"), Fmt(<<"m", "Y">>, "/"), Fmt(<<"m", "Y">>, "."),
       Fmt(<<"Y", "m">>, "-"), Fmt(<<"Y", "m">>, "/"), Fmt(<<"Y", "m">>, ".") >>

date_formats ==
    << Fmt(<<"d", "m", "Y">>, "-"), Fmt(<<"d", "m", "Y">>, "/"), Fmt(<<"d", "m", "Y">>, "."),
       Fmt(<<"m", "d", "Y">>, "-"), Fmt(<<"m", "d", "Y">>, "/"), Fmt(<<"m", "d", "Y">>, "."),
       Fmt(<<"Y", "m", "d">>, "-"), Fmt(<<"Y", "m", "d">>, "/"), Fmt(<<"Y", "m", "d">>, "."),
       Fmt(<<"m", "Y">>, "-"), Fmt(<<"m", "Y">>, "/"), Fmt(<<"m", "Y">>, "."),
       Fmt(<<"Y", "m">>, "-"), Fmt(<<"Y", "m">>, "/"), Fmt(<<"Y", "m">>, ".") >>

\* the characters re.sub(r'[^0-9/.-]', '', ...) keeps
IsDateChar(c) == c \in Digits \cup {"/", ".", "-"}

\* the loop over date_formats, from format i on: the first format that parses
RECURSIVE TryFormats(_, _)
TryFormats(clean_input, i) ==
    IF i > Len(date_formats) THEN None
    ELSE LET date_object == strptime(clean_input, date_formats[i])
         IN  IF date_object # None
             THEN (IF \E k \in 1..Len(date_formats[i].dirs) : date_formats[i].dirs[k] = "d"
                   THEN date_object
                   ELSE [date_object EXCEPT !.d = 1])
             ELSE TryFormats(clean_input, i + 1)

\* parse_date_input of a text cell or of a missing value
parse_date_input(date_input) ==
    IF date_input = NaN THEN None
    ELSE IF date_input = <<>> \/ Strip(date_input) = <<>> THEN None
    ELSE TryFormats(SelectSeq(date_input, IsDateChar), 1)

----------------------------------------------------------------------------
(* Amounts: float() and pd.to_numeric.  The amounts of the model are whole  *)
(* numbers: the texts read are an optional sign, digits and an optional     *)
(* fraction ".0", or nan; anything else is not a number.                    *)

\* float(text): Num(n), NaNf for "nan" in any case, ValueError otherwise
ParseFloat(text) ==
    LET t      == Strip(text)
        signed == t # <<>> /\ t[1] \in {"+", "-"}
        body   == IF signed THEN Tail(t) ELSE t
        parts  == Split(body, ".")
        whole  == parts[1]
        sign   == IF signed /\ t[1] = "-" THEN -1 ELSE 1
    IN  IF Lower(body) = <<"n", "a", "n">> THEN NaNf
        ELSE IF /\ whole # <<>>
                /\ AllDigits(whole)
                /\ Len(parts) <= 2
                /\ (Len(parts) = 2 => \A i \in 1..Len(parts[2]) : parts[2][i] = "0")
        THEN Num(sign * ToInt(whole))
        ELSE ValueError

\* the cells pd.read_csv reads as missing (those the model's texts can spell)
na_values == { <<>>, <<"N", "a", "N">>, <<"n", "a", "n">>, <<"N", "A">> }

\* pd.read_csv, one cell
ReadCell(cell) == IF cell \in na_values THEN NaN ELSE cell

\* pd.to_numeric(..., errors='coerce'), one cell
ToNumeric(cell) ==
    IF cell = NaN \/ ParseFloat(cell) = ValueError THEN NaNf ELSE ParseFloat(cell)

\* dropna(subset=['Date', 'Amount']) and the filter Amount > 0
KeepRow(row) == row.Date # None /\ ~row.Amount.nan /\ row.Amount.v > 0

\* load_expense_data: the DataFrame read from the file's rows
load_expense_data(file) ==
    LET read == [i \in 1..Len(file) |->
                    [Date        |-> parse_date_input(ReadCell(file[i].Date)),
                     Category    |-> ReadCell(file[i].Category),
                     Amount      |-> ToNumeric(ReadCell(file[i].Amount)),
                     Description |-> ReadCell(file[i].Description)]]
    IN  SelectSeq(read, KeepRow)

----------------------------------------------------------------------------
(* Category names                                                          *)

\* name_variations[clean_name][original_name] += 1, both dicts in insertion
\* order: a sequence of [key, variations], variations a sequence of [name, count]
CountName(variations, original_name) ==
    IF \E j \in 1..Len(variations) : variations[j].name = original_name
    THEN [j \in 1..Len(variations) |->
             IF variations[j].name = original_name
             THEN [variations[j] EXCEPT !.count = @ + 1]
             ELSE variations[j]]
    ELSE Append(variations, [name |-> original_name, count |-> 1])

CountVariation(name_variations, clean_name, original_name) ==
    IF \E i \in 1..Len(name_variations) : name_variations[i].key = clean_name
    THEN [i \in 1..Len(name_variations) |->
             IF name_variations[i].key = clean_name
             THEN [name_variations[i] EXCEPT
                      !.variations = CountName(@, original_name)]
             ELSE name_variations[i]]
    ELSE Append(name_variations,
                [key |-> clean_name,
                 variations |-> <<[name |-> original_name, count |-> 1]>>])

\* the loop over self.expense_data['Category'], from row i on
RECURSIVE CountCategories(_, _, _)
CountCategories(data, i, name_variations) ==
    IF i > Len(data) THEN name_variations
    ELSE IF data[i].Category = NaN
         THEN CountCategories(data, i + 1, name_variations)
         ELSE CountCategories(data, i + 1,
                  CountVariation(name_variations,
                                 Lower(Strip(data[i].Category)),
                                 Strip(data[i].Category)))

\* a plausible slip: among equally frequent names the last one wins
MostCommonName_LastWins(variations) ==
    LET j == CHOOSE j \in 1..Len(variations) :
                 /\ \A k \in 1..Len(variations) : variations[k].count <= variations[j].count
                 /\ \A k \in (j + 1)..Len(variations) : variations[k].count < variations[j].count
    IN  variations[j].name

\* max(variations.items(), key=lambda x: x[1])[0]: the first item of the
\* largest count
MostCommonName(variations) ==
    LET j == CHOOSE j \in 1..Len(variations) :
                 /\ \A k \in 1..Len(variations) : variations[k].count <= variations[j].count
                 /\ \A k \in 1..(j - 1) : variations[k].count < variations[j].count
    IN  variations[j].name

\* build_category_name_mapping: the dict, as a function on its keys
build_category_name_mapping(data) ==
    LET name_variations == CountCategories(data, 1, <<>>)
        keys == {name_variations[i].key : i \in 1..Len(name_variations)}
    IN  [k \in keys |->
            MostCommonName(
                name_variations[CHOOSE i \in 1..Len(name_variations) :
                                    name_variations[i].key = k].variations)]

\* normalize_category_name
normalize_category_name(mapping, category_name) ==
    IF category_name = NaN THEN category_name
    ELSE LET clean_name     == Strip(category_name)
             lowercase_name == Lower(clean_name)
         IN  IF lowercase_name \in DOMAIN mapping
             THEN mapping[lowercase_name]
             ELSE clean_name

\* normalize_all_categories
normalize_all_categories(data, mapping) ==
    [i \in 1..Len(data) |->
        [data[i] EXCEPT !.Category = normalize_category_name(mapping, @)]]

\* the empty dict
EmptyMapping == [k \in {} |-> <<>>]

----------------------------------------------------------------------------
(* Saving                                                                  *)

\* date.strftime('%d-%m-%Y')
strftime(date) ==
    ToDigits(date.d, 2) \o <<"-">> \o ToDigits(date.m, 2) \o <<"-">> \o ToDigits(date.y, 4)

\* to_csv, one cell: a missing value is written as the empty cell
WriteCell(cell) == IF cell = NaN THEN <<>> ELSE cell

\* to_csv, one float: nan is the empty cell, 5.0 is written "5.0"
WriteFloat(amount) ==
    IF amount.nan THEN <<>> ELSE ToDigits(amount.v, 1) \o <<".", "0">>

\* save_expense_data: the rows data_to_save.to_csv writes (a failing write,
\* which returns False, is left out of the model)
save_expense_data(data) ==
    [i \in 1..Len(data) |->
        [Date        |-> strftime(data[i].Date),
         Category    |-> WriteCell(data[i].Category),
         Amount      |-> WriteFloat(data[i].Amount),
         Description |-> WriteCell(data[i].Description)]]

----------------------------------------------------------------------------
(* Analytics                                                               *)

\* Series.sum() of the amounts of the rows in `idx`: nan is skipped
RECURSIVE SumAmounts(_, _)
SumAmounts(data, idx) ==
    IF idx = {} THEN 0
    ELSE LET i == CHOOSE i \in idx : TRUE
         IN  (IF data[i].Amount.nan THEN 0 ELSE data[i].Amount.v)
             + SumAmounts(data, idx \ {i})

\* groupby('Category'): the group keys; rows of a missing category are in no
\* group (dropna=True is groupby's default)
GroupKeys(data) ==
    {data[i].Category : i \in {j \in 1..Len(data) : data[j].Category # NaN}}

GroupRows(data, category) == {i \in 1..Len(data) : data[i].Category = category}

\* one row of category_report (the column 'Percentage (%)', a rounded float,
\* is left out of the model)
ReportRow(data, category) ==
    [Category |-> category,
     Total    |-> SumAmounts(data, GroupRows(data, category)),
     Count    |-> Cardinality(GroupRows(data, category))]

\* a plausible slip: sort_values('Total Amount') without ascending=False
InSortOrder_Ascending(report) ==
    \A i \in 1..(Len(report) - 1) : report[i].Total <= report[i + 1].Total

\* sort_values('Total Amount', ascending=False) puts no larger total after a
\* smaller one
InSortOrder(report) ==
    \A i \in 1..(Len(report) - 1) : report[i].Total >= report[i + 1].Total

\* analyze_categories: the reports it can return.  sort_values sorts with
\* kind='quicksort', which is not stable: the order of rows of equal total is
\* whatever the sort of the numpy build leaves, any one of them here.
analyze_categories(data) ==
    LET keys == GroupKeys(data)
        n    == Cardinality(keys)
    IN  { [i \in 1..n |-> ReportRow(data, order[i])] :
            order \in { o \in [1..n -> keys] :
                          /\ \A i, j \in 1..n : i # j => o[i] # o[j]
                          /\ InSortOrder([i \in 1..n |-> ReportRow(data, o[i])]) } }

\* display_spending_summary on a frame with rows: the total and the rows of
\* the largest and the smallest amount (idxmax, idxmin: the first such row,
\* nan skipped); "crash" when every amount is nan, where idxmax has no row to
\* name and the lookup of its result raises
spending_summary(data) ==
    LET valid == {i \in 1..Len(data) : ~data[i].Amount.nan}
    IN  IF valid = {} THEN [outcome |-> "crash"]
        ELSE [outcome |-> "summary",
              total_spent |-> SumAmounts(data, 1..Len(data)),
              highest_expense |->
                  data[CHOOSE i \in valid :
                          /\ \A k \in valid : data[k].Amount.v <= data[i].Amount.v
                          /\ \A k \in valid : k < i => data[k].Amount.v < data[i].Amount.v],
              lowest_expense |->
                  data[CHOOSE i \in valid :
                          /\ \A k \in valid : data[k].Amount.v >= data[i].Amount.v
                          /\ \A k \in valid : k < i => data[k].Amount.v > data[i].Amount.v]]

----------------------------------------------------------------------------
(* Filtering                                                               *)

\* a DataFrame returned to the caller: its columns and its rows
COLUMNS == <<"Date", "Category", "Amount", "Description">>

Frame(rows) == [columns |-> COLUMNS, rows |-> rows]

\* pd.DataFrame()
EmptyFrame == [columns |-> <<>>, rows |-> <<>>]

\* DataFrame.empty
IsEmpty(frame) == frame.columns = <<>> \/ frame.rows = <<>>

\* the order of datetimes
DateLe(a, b) ==
    \/ a.y < b.y
    \/ a.y = b.y /\ a.m < b.m
    \/ a.y = b.y /\ a.m = b.m /\ a.d <= b.d

\* the truth value of an argument: None and the empty text are false
Truthy(text) == text # NaN /\ text # <<>>

\* filter_expenses(start_date, end_date, target_month); NaN is an argument
\* left at its default None.  Returns what it printed, what it logged as an
\* error, and the frame.
filter_expenses(data, start_date, end_date, target_month) ==
    IF Truthy(target_month)
    THEN IF parse_date_input(target_month) = None
         THEN [printed |-> <<"Invalid month format">>, logged |-> <<>>, frame |-> EmptyFrame]
         \* month_date is a datetime.datetime (strptime's result), which has no
         \* method to_period: line 211 raises AttributeError, line 213 catches it
         ELSE [printed |-> <<>>, logged |-> <<"Month filter error">>, frame |-> EmptyFrame]
    ELSE IF Truthy(start_date) \/ Truthy(end_date)
    THEN LET parsed_start == IF Truthy(start_date) THEN parse_date_input(start_date) ELSE None
             parsed_end   == IF Truthy(end_date) THEN parse_date_input(end_date) ELSE None
             Matches(row) ==
                 /\ parsed_start # None => DateLe(parsed_start, row.Date)
                 /\ parsed_end # None => DateLe(row.Date, parsed_end)
         IN  IF Truthy(start_date) /\ parsed_start = None
             THEN [printed |-> <<"Invalid start date">>, logged |-> <<>>, frame |-> EmptyFrame]
             ELSE IF Truthy(end_date) /\ parsed_end = None
             THEN [printed |-> <<"Invalid end date">>, logged |-> <<>>, frame |-> EmptyFrame]
             ELSE [printed |-> <<>>, logged |-> <<>>, frame |-> Frame(SelectSeq(data, Matches))]
    ELSE [printed |-> <<>>, logged |-> <<>>, frame |-> Frame(data)]

----------------------------------------------------------------------------
(* Bounds and inputs                                                       *)

\* the rows of the data file the program is started on
MaxRows == 2

\* the rows the ledger may hold before add_new_expense is tried no more
MaxLen == 2

T_31_03_2024 == <<"3", "1", "-", "0", "3", "-", "2", "0", "2", "4">>
T_2024_04_01 == <<"2", "0", "2", "4", "-", "0", "4", "-", "0", "1">>
T_31_02_2024 == <<"3", "1", "-", "0", "2", "-", "2", "0", "2", "4">>
T_01_04_2024 == <<"0", "1", "-", "0", "4", "-", "2", "0", "2", "4">>
T_2024_03    == <<"2", "0", "2", "4", "-", "0", "3">>

\* what is typed as a date: two dates and an impossible one
DateTexts == {T_31_03_2024, T_2024_04_01, T_31_02_2024}

\* what is typed as a category
CategoryTexts == { <<"F", "o">>, <<" ", "f", "o">>, <<>> }

\* what is typed as an amount
AmountTexts == { <<"5">>, <<"0">>, <<"x">>, <<"n", "a", "n">> }

DescriptionTexts == { <<"x">> }

\* what is typed as a bound of the date range, and as the month
BoundTexts == { <<>>, T_01_04_2024, <<"z", "z">> }

MonthTexts == { <<>>, T_2024_03, <<"z", "z">> }

\* the day datetime.now() falls on
Todays == { [y |-> 2024, m |-> 3, d |-> 31] }

Row(date, category, amount) ==
    [Date |-> date, Category |-> category, Amount |-> amount, Description |-> <<"x">>]

\* the rows a data file is made of: two good rows that spell one category in
\* two ways, and rows with no category, an impossible date, an amount of 0
\* and an amount that is no number
FileRows ==
    { Row(T_31_03_2024, <<"F", "o">>, <<"5">>),
      Row(T_2024_04_01, <<" ", "f", "o">>, <<"5">>),
      Row(T_31_03_2024, <<>>, <<"5">>),
      Row(T_31_02_2024, <<"F", "o">>, <<"5">>),
      Row(T_31_03_2024, <<"F", "o">>, <<"0">>),
      Row(T_31_03_2024, <<"F", "o">>, <<"x">>) }

RECURSIVE SeqsUpTo(_, _)
SeqsUpTo(S, n) ==
    IF n = 0 THEN {<<>>}
    ELSE LET shorter == SeqsUpTo(S, n - 1)
         IN  shorter \cup {Append(q, x) : q \in {r \in shorter : Len(r) = n - 1}, x \in S}

InitialFiles == SeqsUpTo(FileRows, MaxRows)

----------------------------------------------------------------------------
(* The program                                                             *)

\* before the program is started: a data file, no process
Init ==
    /\ pc = "start"
    /\ csv_file \in InitialFiles
    /\ expense_data = <<>>
    /\ category_name_mapping = EmptyMapping
    /\ last = [op |-> "none"]

\* __main__ and ExpenseTracker.__init__: load, build the mapping, normalize
Construct ==
    /\ pc = "start"
    /\ LET loaded  == load_expense_data(csv_file)
           mapping == build_category_name_mapping(loaded)
       IN  /\ category_name_mapping' = mapping
           /\ expense_data' = normalize_all_categories(loaded, mapping)
    /\ pc' = "loop"
    /\ last' = [op |-> "init"]
    /\ UNCHANGED csv_file

\* run_tracker, the top of the loop: show_main_menu and the prompt
ShowMainMenu ==
    /\ pc = "loop"
    /\ pc' = "menu"
    /\ last' = [op |-> "menu"]
    /\ UNCHANGED <<csv_file, expense_data, category_name_mapping>>

\* what add_new_expense does with what was typed: the prints, whether a record
\* is appended, and the record
AddOutcome(mapping, input_date, category_typed, input_amount, description_typed, today, confirm) ==
    LET input_category      == Strip(category_typed)
        input_description   == Strip(description_typed)
        expense_date        == parse_date_input(input_date)
        expense_amount      == ParseFloat(input_amount)
        normalized_category == normalize_category_name(mapping, input_category)
        category_key        == Lower(Strip(input_category))
    IN  IF expense_date = None
        THEN [added |-> FALSE, printed |-> <<"Please use a valid date format like DD-MM-YYYY">>]
        ELSE IF ~DateLe(expense_date, today) /\ confirm # "y"
        THEN [added |-> FALSE, printed |-> <<>>]
        ELSE IF expense_amount = ValueError
        THEN [added |-> FALSE, printed |-> <<"Please enter a valid number">>]
        ELSE IF ~expense_amount.nan /\ expense_amount.v <= 0
        THEN [added |-> FALSE, printed |-> <<"Amount must be positive">>]
        ELSE [added |-> TRUE, printed |-> <<"Added">>,
              mapping |-> IF category_key \in DOMAIN mapping THEN mapping
                          ELSE [k \in DOMAIN mapping \cup {category_key} |->
                                   IF k = category_key THEN normalized_category
                                   ELSE mapping[k]],
              new_record |-> [Date        |-> expense_date,
                              Category    |-> normalized_category,
                              Amount      |-> expense_amount,
                              Description |-> input_description]]

\* menu choice 5, add_new_expense
AddNewExpense ==
    /\ pc = "menu"
    /\ Len(expense_data) < MaxLen
    /\ \E input_date \in DateTexts, category_typed \in CategoryTexts,
          input_amount \in AmountTexts, description_typed \in DescriptionTexts,
          today \in Todays, confirm \in {"y", "n"}, save_choice \in {"y", "n"} :
          LET out == AddOutcome(category_name_mapping, input_date, category_typed,
                                input_amount, description_typed, today, confirm)
          IN  /\ IF out.added
                 THEN /\ expense_data' = Append(expense_data, out.new_record)
                      /\ category_name_mapping' = out.mapping
                      /\ csv_file' = IF save_choice = "y"
                                     THEN save_expense_data(expense_data')
                                     ELSE csv_file
                 ELSE UNCHANGED <<expense_data, category_name_mapping, csv_file>>
              /\ last' = [op |-> "add", input_date |-> input_date,
                          input_amount |-> input_amount,
                          printed |-> out.printed, added |-> out.added,
                          before |-> <<expense_data, category_name_mapping>>]
    /\ pc' = "loop"

\* menu choice 1, display_spending_summary.  The exception of a frame whose
\* amounts are all nan is caught nowhere: it ends the process.
DisplaySpendingSummary ==
    /\ pc = "menu"
    /\ IF expense_data = <<>>
       THEN /\ last' = [op |-> "summary", outcome |-> "No expenses found"]
            /\ pc' = "loop"
            /\ UNCHANGED <<expense_data, category_name_mapping>>
       ELSE LET summary == spending_summary(expense_data)
            IN  /\ last' = [op |-> "summary"] @@ summary
                /\ IF summary.outcome = "crash"
                   THEN /\ pc' = "start"
                        /\ expense_data' = <<>>
                        /\ category_name_mapping' = EmptyMapping
                   ELSE /\ pc' = "loop"
                        /\ UNCHANGED <<expense_data, category_name_mapping>>
    /\ UNCHANGED csv_file

\* menu choice 2, analyze_categories
AnalyzeCategories ==
    /\ pc = "menu"
    /\ IF expense_data = <<>>
       THEN last' = [op |-> "analyze", printed |-> "No expenses to analyze", report |-> <<>>]
       ELSE \E category_report \in analyze_categories(expense_data) :
                last' = [op |-> "analyze", printed |-> "CATEGORY ANALYSIS",
                         report |-> category_report]
    /\ pc' = "loop"
    /\ UNCHANGED <<csv_file, expense_data, category_name_mapping>>

\* what show_filter_menu prints about the frame filter_expenses returned, and
\* the call it made
FilterShown(start_date, end_date, target_month, filtered) ==
    [op |-> "filter",
     start_date |-> start_date, end_date |-> end_date, target_month |-> target_month,
     printed |-> filtered.printed \o (IF IsEmpty(filtered.frame)
                                      THEN <<"No matching records found">>
                                      ELSE <<"rows">>),
     logged |-> filtered.logged,
     frame |-> filtered.frame]

\* menu choice 4, show_filter_menu
ShowFilterMenu ==
    /\ pc = "menu"
    /\ \/ \E start_input \in BoundTexts, end_input \in BoundTexts :
             last' = FilterShown(start_input, end_input, NaN,
                         filter_expenses(expense_data, start_input, end_input, NaN))
       \/ \E month_input \in MonthTexts :
             last' = FilterShown(NaN, NaN, month_input,
                         filter_expenses(expense_data, NaN, NaN, month_input))
       \/ last' = [op |-> "filter", printed |-> <<"Invalid choice">>]
    /\ pc' = "loop"
    /\ UNCHANGED <<csv_file, expense_data, category_name_mapping>>

\* menu choice 7: the offer to save, and the end of the process
Exit ==
    /\ pc = "menu"
    /\ \E save_first \in {"y", "n"} :
          /\ csv_file' = IF expense_data # <<>> /\ save_first = "y"
                         THEN save_expense_data(expense_data)
                         ELSE csv_file
          /\ last' = [op |-> "exit"]
    /\ pc' = "start"
    /\ expense_data' = <<>>
    /\ category_name_mapping' = EmptyMapping

Next ==
    \/ Construct
    \/ ShowMainMenu
    \/ AddNewExpense
    \/ DisplaySpendingSummary
    \/ AnalyzeCategories
    \/ ShowFilterMenu
    \/ Exit

Spec == Init /\ [][Next]_vars

----------------------------------------------------------------------------
(* The date parser on its own: parse_date_input applied to one text        *)

Separators == {"-", "/", "."}

\* the texts between the separators: days, months, years, and numbers that
\* are neither
FieldTexts ==
    { <<"3">>, <<"0", "3">>, <<"0", "4">>, <<"1", "3">>, <<"3", "1">>,
      <<"0", "2">>, <<"2", "0", "2", "4">> }

T_03_04_2024 == <<"0", "3", "-", "0", "4", "-", "2", "0", "2", "4">>

\* three fields, two fields, and texts with characters the parser strips
ParseInputs ==
    { a \o <<s1>> \o b \o <<s2>> \o c :
          a \in FieldTexts, b \in FieldTexts, c \in FieldTexts,
          s1 \in Separators, s2 \in Separators }
    \cup { a \o <<s1>> \o b : a \in FieldTexts, b \in FieldTexts, s1 \in Separators }
    \cup { <<"x", " ">> \o a \o <<"t", "h", s1>> \o b \o <<s1, " ">> \o c \o <<"!">> :
          a \in {<<"3">>, <<"1", "3">>}, b \in {<<"0", "4">>, <<"1", "3">>},
          c \in {<<"2", "0", "2", "4">>}, s1 \in Separators }
    \cup { <<>>, <<" ">>, <<" ", " ">>, <<"x">>, <<"M", "a", "r", " ", "3">>, NaN }

InitParse ==
    /\ pc = "parse"
    /\ last \in {[op |-> "input", date_input |-> text] : text \in ParseInputs}
    /\ csv_file = <<>>
    /\ expense_data = <<>>
    /\ category_name_mapping = EmptyMapping

\* one call of parse_date_input
ParseDate ==
    /\ pc = "parse"
    /\ pc' = "parsed"
    /\ last' = [op |-> "parse", date_input |-> last.date_input,
                result |-> parse_date_input(last.date_input)]
    /\ UNCHANGED <<csv_file, expense_data, category_name_mapping>>

NextParse == ParseDate

SpecParse == InitParse /\ [][NextParse]_vars

----------------------------------------------------------------------------
(* The category names of a file: the program started on files whose rows   *)
(* spell categories in several ways                                        *)

\* the rows of the files of SpecNames
MaxNameRows == 4

NameRows ==
    { Row(T_31_03_2024, <<"F", "o">>, <<"5">>),
      Row(T_31_03_2024, <<"f", "o">>, <<"5">>),
      Row(T_31_03_2024, <<" ", "f", "o">>, <<"5">>),
      Row(T_31_03_2024, <<"Z">>, <<"5">>),
      Row(T_31_03_2024, <<>>, <<"5">>),
      Row(T_31_03_2024, <<"f", "o">>, <<"0">>) }

InitNames ==
    /\ pc = "start"
    /\ csv_file \in SeqsUpTo(NameRows, MaxNameRows)
    /\ expense_data = <<>>
    /\ category_name_mapping = EmptyMapping
    /\ last = [op |-> "none"]

NextNames == Construct \/ ShowMainMenu

SpecNames == InitNames /\ [][NextNames]_vars

----------------------------------------------------------------------------
(* The category report: the program started on files of good rows, and     *)
(* asked for the category analysis                                         *)

\* the rows of the files of SpecReport
MaxReportRows == 3

ReportRows ==
    { Row(T_31_03_2024, <<"F", "o">>, <<"5">>),
      Row(T_31_03_2024, <<"F", "o">>, <<"7">>),
      Row(T_31_03_2024, <<"Z">>, <<"5">>),
      Row(T_31_03_2024, <<"Z">>, <<"7">>),
      Row(T_31_03_2024, <<"A">>, <<"5">>),
      Row(T_31_03_2024, <<>>, <<"5">>) }

InitReport ==
    /\ pc = "start"
    /\ csv_file \in SeqsUpTo(ReportRows, MaxReportRows)
    /\ expense_data = <<>>
    /\ category_name_mapping = EmptyMapping
    /\ last = [op |-> "none"]

NextReport == Construct \/ ShowMainMenu \/ AnalyzeCategories

SpecReport == InitReport /\ [][NextReport]_vars

----------------------------------------------------------------------------
(* Properties                                                              *)

Running == pc \in {"loop", "menu"}

\* C1: every record of the ledger has a date and an amount that is a number
\* greater than 0, whatever was loaded and added.
C1_RecordsValid ==
    \A i \in 1..Len(expense_data) :
        /\ expense_data[i].Date # None
        /\ ~expense_data[i].Amount.nan
        /\ expense_data[i].Amount.v > 0

\* a text that spells a number greater than 0
IsPositiveNumber(text) ==
    LET amount == ParseFloat(text)
    IN  amount # ValueError /\ ~amount.nan /\ amount.v > 0

\* C2: an add whose date does not parse, or whose amount is not a positive
\* number, appends nothing and leaves the ledger and the name table as they
\* were before the call.
C2_InvalidAddChangesNothing ==
    (/\ last.op = "add"
     /\ \/ parse_date_input(last.input_date) = None
        \/ ~IsPositiveNumber(last.input_amount))
    => /\ ~last.added
       /\ <<expense_data, category_name_mapping>> = last.before

CategoryKey(category) == Lower(Strip(category))

\* C3: the name table has exactly the keys of the categories of the ledger,
\* and every record carries the table's entry for the key of its category.
C3_TableCanonical ==
    Running =>
        /\ \A i \in 1..Len(expense_data) :
              /\ expense_data[i].Category # NaN
              /\ CategoryKey(expense_data[i].Category) \in DOMAIN category_name_mapping
              /\ category_name_mapping[CategoryKey(expense_data[i].Category)]
                     = expense_data[i].Category
        /\ \A k \in DOMAIN category_name_mapping :
              \E i \in 1..Len(expense_data) :
                  /\ expense_data[i].Category # NaN
                  /\ CategoryKey(expense_data[i].Category) = k

\* C3 for the records that have a category: what holds of the code
C3_TableCanonicalOfPresent ==
    Running =>
        /\ \A i \in 1..Len(expense_data) :
              expense_data[i].Category # NaN =>
                  /\ CategoryKey(expense_data[i].Category) \in DOMAIN category_name_mapping
                  /\ category_name_mapping[CategoryKey(expense_data[i].Category)]
                         = expense_data[i].Category
        /\ \A k \in DOMAIN category_name_mapping :
              \E i \in 1..Len(expense_data) :
                  /\ expense_data[i].Category # NaN
                  /\ CategoryKey(expense_data[i].Category) = k

SameMonth(a, b) == a.y = b.y /\ a.m = b.m

InMonthOf(month_date, data) ==
    LET InMonth(row) == SameMonth(row.Date, month_date)
    IN  SelectSeq(data, InMonth)

\* C4: the filter by a month that parses returns exactly the records of that
\* year and month.
C4_ByMonthExact ==
    (/\ last.op = "filter"
     /\ last.printed # <<"Invalid choice">>
     /\ Truthy(last.target_month)
     /\ parse_date_input(last.target_month) # None)
    => last.frame.rows = InMonthOf(parse_date_input(last.target_month), expense_data)

FirstSeen(category) ==
    CHOOSE i \in 1..Len(expense_data) :
        /\ expense_data[i].Category = category
        /\ \A j \in 1..(i - 1) : expense_data[j].Category # category

CategoriesOfLedger ==
    {expense_data[i].Category : i \in 1..Len(expense_data)} \ {NaN}

\* the report has one row for each category of the ledger, with its total
OneRowPerCategory(report) ==
    /\ Len(report) = Cardinality(CategoriesOfLedger)
    /\ {report[i].Category : i \in 1..Len(report)} = CategoriesOfLedger
    /\ \A i \in 1..Len(report) :
          report[i].Total =
              SumAmounts(expense_data,
                         {j \in 1..Len(expense_data) :
                              expense_data[j].Category = report[i].Category})

\* C5 (as amended): the category report has one row for each category of the
\* ledger, and no row comes after a row of a smaller total.
C5_ReportDescending ==
    (last.op = "analyze" /\ expense_data # <<>>) =>
        /\ OneRowPerCategory(last.report)
        /\ \A i, j \in 1..Len(last.report) :
              i < j => last.report[i].Total >= last.report[j].Total

\* C5 (as claimed): and rows of equal totals are in the order in which their
\* categories first appear in the ledger.
C5_TiesInFirstSeenOrder ==
    (last.op = "analyze" /\ expense_data # <<>>) =>
        /\ OneRowPerCategory(last.report)
        /\ \A i, j \in 1..Len(last.report) :
              i < j =>
                  /\ last.report[i].Total >= last.report[j].Total
                  /\ last.report[i].Total = last.report[j].Total =>
                         FirstSeen(last.report[i].Category)
                             < FirstSeen(last.report[j].Category)

\* a report of three categories, the last two of equal totals
C5_Witness ==
    /\ last.op = "analyze"
    /\ Len(last.report) = 3
    /\ last.report[1].Total > last.report[2].Total
    /\ last.report[2].Total = last.report[3].Total

\* the text without the characters that are no digit, '/', '.' or '-'
RECURSIVE DateCharsOf(_)
DateCharsOf(text) ==
    IF text = <<>> THEN <<>>
    ELSE IF Head(text) \in {"0", "1", "2", "3", "4", "5", "6", "7", "8", "9", "/", ".", "-"}
         THEN <<Head(text)>> \o DateCharsOf(Tail(text))
         ELSE DateCharsOf(Tail(text))

\* the date the text is in one of the three spellings of a pattern, or None
InPattern(text, dirs) ==
    LET hits == {strptime(text, Fmt(dirs, sep)) : sep \in Separators} \ {None}
    IN  IF hits = {} THEN None ELSE CHOOSE date \in hits : TRUE

\* the date of the first pattern, in the order of precedence, the text is in
ByPrecedence(text) ==
    IF InPattern(text, <<"d", "m", "Y">>) # None THEN InPattern(text, <<"d", "m", "Y">>)
    ELSE IF InPattern(text, <<"m", "d", "Y">>) # None THEN InPattern(text, <<"m", "d", "Y">>)
    ELSE IF InPattern(text, <<"Y", "m", "d">>) # None THEN InPattern(text, <<"Y", "m", "d">>)
    ELSE IF InPattern(text, <<"m", "Y">>) # None
         THEN [InPattern(text, <<"m", "Y">>) EXCEPT !.d = 1]
    ELSE IF InPattern(text, <<"Y", "m">>) # None
         THEN [InPattern(text, <<"Y", "m">>) EXCEPT !.d = 1]
    ELSE None

\* C6: the parser's result is the date of the first of Day-Month-Year,
\* Month-Day-Year, Year-Month-Day, Month-Year, Year-Month that the text,
\* stripped of all but digits, '/', '.' and '-', is exactly in, the first of
\* the month for the month-only patterns, None if it is in none; 03-04-2024
\* is the 3rd of April.
C6_ParsePrecedence ==
    last.op = "parse" =>
        /\ last.result = ByPrecedence(DateCharsOf(last.date_input))
        /\ last.date_input = T_03_04_2024 =>
               last.result = [y |-> 2024, m |-> 4, d |-> 3]

\* 03-04-2024, which both Day-Month-Year and Month-Day-Year fit, parsed
C6_Witness ==
    /\ last.op = "parse"
    /\ last.date_input = T_03_04_2024
    /\ last.result = [y |-> 2024, m |-> 4, d |-> 3]

\* the rows of a frame that spell the category of key k as `name`
RowsSpelling(frame, k, name) ==
    {j \in 1..Len(frame) :
         /\ frame[j].Category # NaN
         /\ CategoryKey(frame[j].Category) = k
         /\ Strip(frame[j].Category) = name}

FirstRow(S) == CHOOSE j \in S : \A l \in S : j <= l

\* in the frame as loaded, `name` is the most frequent spelling of the key k,
\* and the one met first among the spellings as frequent as it is
MostFrequentFirstMet(loaded, k, name) ==
    /\ RowsSpelling(loaded, k, name) # {}
    /\ \A j \in 1..Len(loaded) :
          (/\ loaded[j].Category # NaN
           /\ CategoryKey(loaded[j].Category) = k
           /\ Strip(loaded[j].Category) # name) =>
              LET mine   == RowsSpelling(loaded, k, name)
                  theirs == RowsSpelling(loaded, k, Strip(loaded[j].Category))
              IN  \/ Cardinality(theirs) < Cardinality(mine)
                  \/ /\ Cardinality(theirs) = Cardinality(mine)
                     /\ FirstRow(mine) < FirstRow(theirs)

\* C7: after the load, every record's category is the spelling (trimmed) that
\* is most frequent among the loaded rows of the same lowercase-trimmed key,
\* the one met first among equally frequent spellings, and it is the table's
\* entry for the key.
C7_MostFrequentSpelling ==
    (Running /\ last.op \in {"init", "menu"}) =>
        LET loaded == load_expense_data(csv_file)
        IN  /\ Len(expense_data) = Len(loaded)
            /\ \A i \in 1..Len(loaded) :
                  loaded[i].Category # NaN =>
                      /\ category_name_mapping[CategoryKey(loaded[i].Category)]
                             = expense_data[i].Category
                      /\ MostFrequentFirstMet(loaded, CategoryKey(loaded[i].Category),
                                              expense_data[i].Category)

\* "fo" once, then "Fo" three times: all four records are "Fo"
C7_Witness ==
    /\ pc = "loop"
    /\ Len(csv_file) = 4
    /\ csv_file[1].Category = <<"f", "o">> /\ csv_file[1].Amount = <<"5">>
    /\ \A i \in 2..4 : csv_file[i].Category = <<"F", "o">>
    /\ \A i \in 1..4 : expense_data[i].Category = <<"F", "o">>

\* "fo" then "Fo", once each: both records are "fo", the spelling met first
C7_WitnessTie ==
    /\ pc = "loop"
    /\ Len(csv_file) = 2
    /\ csv_file[1].Category = <<"f", "o">> /\ csv_file[1].Amount = <<"5">>
    /\ csv_file[2].Category = <<"F", "o">>
    /\ \A i \in 1..2 : expense_data[i].Category = <<"f", "o">>

\* a bound of the range, or a month, that was given and does not parse
Unparsable(text) == Truthy(text) /\ parse_date_input(text) = None

\* C8: a filter given an unparsable bound or month is not reported by its
\* caller as the filter that matched no record.
C8_ErrorIsNotNoMatch ==
    (/\ last.op = "filter"
     /\ last.printed # <<"Invalid choice">>
     /\ \/ Unparsable(last.start_date)
        \/ Unparsable(last.end_date)
        \/ Unparsable(last.target_month))
    => last.printed[Len(last.printed)] # "No matching records found"

\* C9: every record of the ledger has a category, and it is not empty.
C9_CategoryNeverEmpty ==
    \A i \in 1..Len(expense_data) :
        /\ expense_data[i].Category # NaN
        /\ expense_data[i].Category # <<>>

RECURSIVE SumOver(_, _, _)
SumOver(report, i, field) ==
    IF i > Len(report) THEN 0 ELSE report[i][field] + SumOver(report, i + 1, field)

\* C10: the counts of the category report add up to the number of records,
\* and its totals to the total of the summary.
C10_BreakdownComplete ==
    (last.op = "analyze" /\ expense_data # <<>>) =>
        /\ SumOver(last.report, 1, "Count") = Len(expense_data)
        /\ SumOver(last.report, 1, "Total")
               = SumAmounts(expense_data, 1..Len(expense_data))

====
